---- MODULE Spec2Model ----
(***************************************************************************)
(* Model of src/soundcloud.py: the stream-variant selection of             *)
(* soundcloud_download_track (with filter_transcodings and                 *)
(* guess_container_from_mime) and the metadata reconciliation of           *)
(* soundcloud_get_track_metadata.                                          *)
(*                                                                         *)
(* A Python string is the sequence of its code points (ord of each         *)
(* character), so that `in`, startswith, find, split, strip, lower and the *)
(* regular expressions are computed on characters of the whole Unicode     *)
(* range.  A JSON value is a record [k, s, n]: k is the kind ("absent" for *)
(* a missing key, "null", "str", "int"), s the string and n the number.    *)
(***************************************************************************)
EXTENDS Integers, Sequences, FiniteSets, TLC

VARIABLES
    \* soundcloud_download_track
    pc, hq, output_path, status, track_data, chosen, ret, err,
    \* guess_container_from_mime, called on its own
    gpc, mime_type, container,
    \* soundcloud_get_track_metadata
    mpc, m_track_data, track_webpage, start_index, album_data, info, merr, fetches

dvars == <<pc, hq, output_path, status, track_data, chosen, ret, err>>
gvars == <<gpc, mime_type, container>>
mvars == <<mpc, m_track_data, track_webpage, start_index, album_data, info, merr, fetches>>
vars == <<pc, hq, output_path, status, track_data, chosen, ret, err, gpc, mime_type, container,
          mpc, m_track_data, track_webpage, start_index, album_data, info, merr, fetches>>

(***************************************************************************)
(* Bounds of the model.                                                    *)
(***************************************************************************)
MaxTranscodings == 2
MaxMimeChunks == 3
MaxVariedFields == 1
MaxPageChunks == 2
MaxAlbumTracks == 2

(***************************************************************************)
(* String literals, each with the text it stands for.                     *)
(***************************************************************************)
S_empty == <<>>
\* '/'
S_slash == <<47>>
\* '.'
S_dot == <<46>>
\* 'None', as str() writes None
S_None == <<78, 111, 110, 101>>
\* 'encrypted'
S_encrypted == <<101, 110, 99, 114, 121, 112, 116, 101, 100>>
\* 'hq'
S_hq == <<104, 113>>
\* 'sq'
S_sq == <<115, 113>>
\* 'aac_'
S_aac_ == <<97, 97, 99, 95>>
\* 'mp3_'
S_mp3_ == <<109, 112, 51, 95>>
\* 'opus_'
S_opus_ == <<111, 112, 117, 115, 95>>
\* 'mpeg'
S_mpeg == <<109, 112, 101, 103>>
\* 'mp4'
S_mp4 == <<109, 112, 52>>
\* 'ogg'
S_ogg == <<111, 103, 103>>
\* 'mp3'
S_mp3 == <<109, 112, 51>>
\* 'm4a'
S_m4a == <<109, 52, 97>>
\* 'aac_160k'
S_aac_160k == <<97, 97, 99, 95, 49, 54, 48, 107>>
\* 'mp3_0_1'
S_mp3_0_1 == <<109, 112, 51, 95, 48, 95, 49>>
\* 'opus_0_0'
S_opus_0_0 == <<111, 112, 117, 115, 95, 48, 95, 48>>
\* 'abr_sq'
S_abr_sq == <<97, 98, 114, 95, 115, 113>>
\* 'hls'
S_hls == <<104, 108, 115>>
\* 'progressive'
S_progressive == <<112, 114, 111, 103, 114, 101, 115, 115, 105, 118, 101>>
\* 'ctr-encrypted-hls'
S_ctr_encrypted_hls == <<99, 116, 114, 45, 101, 110, 99, 114, 121, 112, 116, 101, 100, 45, 104, 108, 115>>
\* 'audio/mpeg'
S_audio_mpeg == <<97, 117, 100, 105, 111, 47, 109, 112, 101, 103>>
\* 'audio/mp4; codecs="mp4a.40.2"'
S_audio_mp4 == <<97, 117, 100, 105, 111, 47, 109, 112, 52, 59, 32, 99, 111, 100, 101, 99, 115, 61, 34, 109, 112, 52, 97, 46, 52, 48, 46, 50, 34>>
\* 'audio/ogg; codecs="opus"'
S_audio_ogg == <<97, 117, 100, 105, 111, 47, 111, 103, 103, 59, 32, 99, 111, 100, 101, 99, 115, 61, 34, 111, 112, 117, 115, 34>>
\* 'soundcloud_'
S_soundcloud_ == <<115, 111, 117, 110, 100, 99, 108, 111, 117, 100, 95>>
\* '42'
S_item_id == <<52, 50>>
\* 'song.flac'
S_song_flac == <<115, 111, 110, 103, 46, 102, 108, 97, 99>>
\* 'rel.1/song'
S_dir_song == <<114, 101, 108, 46, 49, 47, 115, 111, 110, 103>>
\* 'audio/'
S_audio_ == <<97, 117, 100, 105, 111, 47>>
\* 'x-unknown'
S_x_unknown == <<120, 45, 117, 110, 107, 110, 111, 119, 110>>
\* 'MP'
S_MP == <<77, 80>>
\* 'EG'
S_EG == <<69, 71>>
\* '4'
S_four == <<52>>
\* '<h2>Appears in albums</h2>'
S_marker == <<60, 104, 50, 62, 65, 112, 112, 101, 97, 114, 115, 32, 105, 110, 32, 97, 108, 98, 117, 109, 115, 60, 47, 104, 50, 62>>
\* 'href="'
S_href_open == <<104, 114, 101, 102, 61, 34>>
\* '"'
S_quote == <<34>>
\* '<a'
S_lt_a == <<60, 97>>
\* '>'
S_gt == <<62>>
\* '</a>'
S_close_a == <<60, 47, 97, 62>>
\* '\n'
S_newline == <<10>>
\* 'Users who like'
S_users_who_like == <<85, 115, 101, 114, 115, 32, 119, 104, 111, 32, 108, 105, 107, 101>>
\* ','
S_comma == <<44>>
\* '-'
S_dash == <<45>>
\* '; '
S_separator == <<59, 32>>
\* '0123456789'
S_digits == <<48, 49, 50, 51, 52, 53, 54, 55, 56, 57>>
\* '1'
S_one == <<49>>
\* 'album'
S_album == <<97, 108, 98, 117, 109>>
\* 'single'
S_single == <<115, 105, 110, 103, 108, 101>>
\* 'https://soundcloud.com/u/song'
S_permalink == <<104, 116, 116, 112, 115, 58, 47, 47, 115, 111, 117, 110, 100, 99, 108, 111, 117, 100, 46, 99, 111, 109, 47, 117, 47, 115, 111, 110, 103>>
\* 'Song'
S_title == <<83, 111, 110, 103>>
\* 'Ann , Bob'
S_artist == <<65, 110, 110, 32, 44, 32, 66, 111, 98>>
\* 'Own Album'
S_pm_album == <<79, 119, 110, 32, 65, 108, 98, 117, 109>>
\* '2020 Ann, Label'
S_c_line == <<50, 48, 50, 48, 32, 65, 110, 110, 44, 32, 76, 97, 98, 101, 108>>
\* 'uploader'
S_username == <<117, 112, 108, 111, 97, 100, 101, 114>>
\* '2020-03-04T00:00:00Z'
S_release_date == <<50, 48, 50, 48, 45, 48, 51, 45, 48, 52, 84, 48, 48, 58, 48, 48, 58, 48, 48, 90>>
\* '2021-05-01T00:00:00Z'
S_last_modified == <<50, 48, 50, 49, 45, 48, 53, 45, 48, 49, 84, 48, 48, 58, 48, 48, 58, 48, 48, 90>>
\* 'Indie'
S_label == <<73, 110, 100, 105, 101>>
\* '<a href="/u/sets/lp">LP</a>'
Chunk_album_anchor == <<60, 97, 32, 104, 114, 101, 102, 61, 34, 47, 117, 47, 115, 101, 116, 115, 47, 108, 112, 34, 62, 76, 80, 60, 47, 97, 62>>
\* '<a href="/u/likes">Users who like similar tracks</a>'
Chunk_users_anchor == <<60, 97, 32, 104, 114, 101, 102, 61, 34, 47, 117, 47, 108, 105, 107, 101, 115, 34, 62, 85, 115, 101, 114, 115, 32, 119, 104, 111, 32, 108, 105, 107, 101, 32, 115, 105, 109, 105, 108, 97, 114, 32, 116, 114, 97, 99, 107, 115, 60, 47, 97, 62>>
\* '<a class="t">Top</a>'
Chunk_plain_anchor == <<60, 97, 32, 99, 108, 97, 115, 115, 61, 34, 116, 34, 62, 84, 111, 112, 60, 47, 97, 62>>

(***************************************************************************)
(* JSON values and Python's None.                                          *)
(***************************************************************************)
Absent == [k |-> "absent", s |-> <<>>, n |-> 0]
Null == [k |-> "null", s |-> <<>>, n |-> 0]
Str(s) == [k |-> "str", s |-> s, n |-> 0]
Num(n) == [k |-> "int", s |-> <<>>, n |-> n]

\* dict.get(key, default) on a value that is a string when present
GetStr(v, default) == IF v.k = "absent" THEN Str(default) ELSE v

(***************************************************************************)
(* Python string operations.                                               *)
(***************************************************************************)
\* the element of a singleton set; a value computed once is bound to a name
\* by ranging over the singleton that holds it
Only(S) == CHOOSE x \in S : TRUE

SetMin(S) == CHOOSE x \in S : \A y \in S : x <= y
SetMax(S) == CHOOSE x \in S : \A y \in S : x >= y

\* str.find(sub): the lowest 0-based index of sub in s, or -1
\* sub occurs in s at the 0-based position i
OccursAt(s, sub, i) == \A j \in 1..Len(sub) : s[i + j] = sub[j]

\* str.find(sub, from): the lowest 0-based index >= from of sub in s, or -1
FindFrom(s, sub, from) ==
    Only({IF idx = {} THEN -1 ELSE SetMin(idx) :
            idx \in {{i \in from..(Len(s) - Len(sub)) : OccursAt(s, sub, i)}}})

Find(s, sub) == FindFrom(s, sub, 0)

\* str.rfind(sub): the highest 0-based index of sub in s, or -1
RFind(s, sub) ==
    Only({IF idx = {} THEN -1 ELSE SetMax(idx) :
            idx \in {{i \in 0..(Len(s) - Len(sub)) : OccursAt(s, sub, i)}}})

\* sub in s
Contains(s, sub) == Find(s, sub) # -1

\* s.startswith(prefix)
StartsWith(s, prefix) ==
    /\ Len(prefix) <= Len(s)
    /\ SubSeq(s, 1, Len(prefix)) = prefix

RECURSIVE ConcatAll(_)
ConcatAll(ss) == IF ss = <<>> THEN <<>> ELSE Head(ss) \o ConcatAll(Tail(ss))

\* The simple lower-case mapping of str.lower(): <<first, last, step, delta>>
\* maps every step-th code point from first to last to itself plus delta.
LowerRanges ==
    {
     <<65, 90, 1, 32>>, <<192, 214, 1, 32>>, <<216, 222, 1, 32>>, <<256, 302, 2, 1>>, <<306, 310, 2, 1>>, <<313, 327, 2, 1>>,
     <<330, 374, 2, 1>>, <<376, 376, 1, -121>>, <<377, 381, 2, 1>>, <<385, 385, 1, 210>>, <<386, 388, 2, 1>>, <<390, 390, 1, 206>>,
     <<391, 391, 1, 1>>, <<393, 394, 1, 205>>, <<395, 395, 1, 1>>, <<398, 398, 1, 79>>, <<399, 399, 1, 202>>, <<400, 400, 1, 203>>,
     <<401, 401, 1, 1>>, <<403, 403, 1, 205>>, <<404, 404, 1, 207>>, <<406, 406, 1, 211>>, <<407, 407, 1, 209>>, <<408, 408, 1, 1>>,
     <<412, 412, 1, 211>>, <<413, 413, 1, 213>>, <<415, 415, 1, 214>>, <<416, 420, 2, 1>>, <<422, 422, 1, 218>>, <<423, 423, 1, 1>>,
     <<425, 425, 1, 218>>, <<428, 428, 1, 1>>, <<430, 430, 1, 218>>, <<431, 431, 1, 1>>, <<433, 434, 1, 217>>, <<435, 437, 2, 1>>,
     <<439, 439, 1, 219>>, <<440, 440, 1, 1>>, <<444, 444, 1, 1>>, <<452, 452, 1, 2>>, <<453, 453, 1, 1>>, <<455, 455, 1, 2>>,
     <<456, 456, 1, 1>>, <<458, 458, 1, 2>>, <<459, 475, 2, 1>>, <<478, 494, 2, 1>>, <<497, 497, 1, 2>>, <<498, 500, 2, 1>>,
     <<502, 502, 1, -97>>, <<503, 503, 1, -56>>, <<504, 542, 2, 1>>, <<544, 544, 1, -130>>, <<546, 562, 2, 1>>, <<570, 570, 1, 10795>>,
     <<571, 571, 1, 1>>, <<573, 573, 1, -163>>, <<574, 574, 1, 10792>>, <<577, 577, 1, 1>>, <<579, 579, 1, -195>>, <<580, 580, 1, 69>>,
     <<581, 581, 1, 71>>, <<582, 590, 2, 1>>, <<880, 882, 2, 1>>, <<886, 886, 1, 1>>, <<895, 895, 1, 116>>, <<902, 902, 1, 38>>,
     <<904, 906, 1, 37>>, <<908, 908, 1, 64>>, <<910, 911, 1, 63>>, <<913, 929, 1, 32>>, <<931, 939, 1, 32>>, <<975, 975, 1, 8>>,
     <<984, 1006, 2, 1>>, <<1012, 1012, 1, -60>>, <<1015, 1015, 1, 1>>, <<1017, 1017, 1, -7>>, <<1018, 1018, 1, 1>>, <<1021, 1023, 1, -130>>,
     <<1024, 1039, 1, 80>>, <<1040, 1071, 1, 32>>, <<1120, 1152, 2, 1>>, <<1162, 1214, 2, 1>>, <<1216, 1216, 1, 15>>, <<1217, 1229, 2, 1>>,
     <<1232, 1326, 2, 1>>, <<1329, 1366, 1, 48>>, <<4256, 4293, 1, 7264>>, <<4295, 4295, 1, 7264>>, <<4301, 4301, 1, 7264>>, <<5024, 5103, 1, 38864>>,
     <<5104, 5109, 1, 8>>, <<7312, 7354, 1, -3008>>, <<7357, 7359, 1, -3008>>, <<7680, 7828, 2, 1>>, <<7838, 7838, 1, -7615>>, <<7840, 7934, 2, 1>>,
     <<7944, 7951, 1, -8>>, <<7960, 7965, 1, -8>>, <<7976, 7983, 1, -8>>, <<7992, 7999, 1, -8>>, <<8008, 8013, 1, -8>>, <<8025, 8031, 2, -8>>,
     <<8040, 8047, 1, -8>>, <<8072, 8079, 1, -8>>, <<8088, 8095, 1, -8>>, <<8104, 8111, 1, -8>>, <<8120, 8121, 1, -8>>, <<8122, 8123, 1, -74>>,
     <<8124, 8124, 1, -9>>, <<8136, 8139, 1, -86>>, <<8140, 8140, 1, -9>>, <<8152, 8153, 1, -8>>, <<8154, 8155, 1, -100>>, <<8168, 8169, 1, -8>>,
     <<8170, 8171, 1, -112>>, <<8172, 8172, 1, -7>>, <<8184, 8185, 1, -128>>, <<8186, 8187, 1, -126>>, <<8188, 8188, 1, -9>>, <<8486, 8486, 1, -7517>>,
     <<8490, 8490, 1, -8383>>, <<8491, 8491, 1, -8262>>, <<8498, 8498, 1, 28>>, <<8544, 8559, 1, 16>>, <<8579, 8579, 1, 1>>, <<9398, 9423, 1, 26>>,
     <<11264, 11311, 1, 48>>, <<11360, 11360, 1, 1>>, <<11362, 11362, 1, -10743>>, <<11363, 11363, 1, -3814>>, <<11364, 11364, 1, -10727>>, <<11367, 11371, 2, 1>>,
     <<11373, 11373, 1, -10780>>, <<11374, 11374, 1, -10749>>, <<11375, 11375, 1, -10783>>, <<11376, 11376, 1, -10782>>, <<11378, 11378, 1, 1>>, <<11381, 11381, 1, 1>>,
     <<11390, 11391, 1, -10815>>, <<11392, 11490, 2, 1>>, <<11499, 11501, 2, 1>>, <<11506, 11506, 1, 1>>, <<42560, 42604, 2, 1>>, <<42624, 42650, 2, 1>>,
     <<42786, 42798, 2, 1>>, <<42802, 42862, 2, 1>>, <<42873, 42875, 2, 1>>, <<42877, 42877, 1, -35332>>, <<42878, 42886, 2, 1>>, <<42891, 42891, 1, 1>>,
     <<42893, 42893, 1, -42280>>, <<42896, 42898, 2, 1>>, <<42902, 42920, 2, 1>>, <<42922, 42922, 1, -42308>>, <<42923, 42923, 1, -42319>>, <<42924, 42924, 1, -42315>>,
     <<42925, 42925, 1, -42305>>, <<42926, 42926, 1, -42308>>, <<42928, 42928, 1, -42258>>, <<42929, 42929, 1, -42282>>, <<42930, 42930, 1, -42261>>, <<42931, 42931, 1, 928>>,
     <<42932, 42946, 2, 1>>, <<42948, 42948, 1, -48>>, <<42949, 42949, 1, -42307>>, <<42950, 42950, 1, -35384>>, <<42951, 42953, 2, 1>>, <<42960, 42960, 1, 1>>,
     <<42966, 42968, 2, 1>>, <<42997, 42997, 1, 1>>, <<65313, 65338, 1, 32>>, <<66560, 66599, 1, 40>>, <<66736, 66771, 1, 40>>, <<66928, 66938, 1, 39>>,
     <<66940, 66954, 1, 39>>, <<66956, 66962, 1, 39>>, <<66964, 66965, 1, 39>>, <<68736, 68786, 1, 64>>, <<71840, 71871, 1, 32>>, <<93760, 93791, 1, 32>>,
     <<125184, 125217, 1, 34>>
    }

\* The cased characters that are not case-ignorable, as <<first, last>>
CasedRanges ==
    {
     <<65, 90>>, <<97, 122>>, <<170, 170>>, <<181, 181>>, <<186, 186>>, <<192, 214>>, <<216, 246>>, <<248, 442>>,
     <<444, 447>>, <<452, 659>>, <<661, 687>>, <<880, 883>>, <<886, 887>>, <<891, 893>>, <<895, 895>>, <<902, 902>>,
     <<904, 906>>, <<908, 908>>, <<910, 929>>, <<931, 1013>>, <<1015, 1153>>, <<1162, 1327>>, <<1329, 1366>>, <<1376, 1416>>,
     <<4256, 4293>>, <<4295, 4295>>, <<4301, 4301>>, <<4304, 4346>>, <<4349, 4351>>, <<5024, 5109>>, <<5112, 5117>>, <<7296, 7304>>,
     <<7312, 7354>>, <<7357, 7359>>, <<7424, 7467>>, <<7531, 7543>>, <<7545, 7578>>, <<7680, 7957>>, <<7960, 7965>>, <<7968, 8005>>,
     <<8008, 8013>>, <<8016, 8023>>, <<8025, 8025>>, <<8027, 8027>>, <<8029, 8029>>, <<8031, 8061>>, <<8064, 8116>>, <<8118, 8124>>,
     <<8126, 8126>>, <<8130, 8132>>, <<8134, 8140>>, <<8144, 8147>>, <<8150, 8155>>, <<8160, 8172>>, <<8178, 8180>>, <<8182, 8188>>,
     <<8450, 8450>>, <<8455, 8455>>, <<8458, 8467>>, <<8469, 8469>>, <<8473, 8477>>, <<8484, 8484>>, <<8486, 8486>>, <<8488, 8488>>,
     <<8490, 8493>>, <<8495, 8500>>, <<8505, 8505>>, <<8508, 8511>>, <<8517, 8521>>, <<8526, 8526>>, <<8544, 8575>>, <<8579, 8580>>,
     <<9398, 9449>>, <<11264, 11387>>, <<11390, 11492>>, <<11499, 11502>>, <<11506, 11507>>, <<11520, 11557>>, <<11559, 11559>>, <<11565, 11565>>,
     <<42560, 42605>>, <<42624, 42651>>, <<42786, 42863>>, <<42865, 42887>>, <<42891, 42894>>, <<42896, 42954>>, <<42960, 42961>>, <<42963, 42963>>,
     <<42965, 42969>>, <<42997, 42998>>, <<43002, 43002>>, <<43824, 43866>>, <<43872, 43880>>, <<43888, 43967>>, <<64256, 64262>>, <<64275, 64279>>,
     <<65313, 65338>>, <<65345, 65370>>, <<66560, 66639>>, <<66736, 66771>>, <<66776, 66811>>, <<66928, 66938>>, <<66940, 66954>>, <<66956, 66962>>,
     <<66964, 66965>>, <<66967, 66977>>, <<66979, 66993>>, <<66995, 67001>>, <<67003, 67004>>, <<68736, 68786>>, <<68800, 68850>>, <<71840, 71903>>,
     <<93760, 93823>>, <<119808, 119892>>, <<119894, 119964>>, <<119966, 119967>>, <<119970, 119970>>, <<119973, 119974>>, <<119977, 119980>>, <<119982, 119993>>,
     <<119995, 119995>>, <<119997, 120003>>, <<120005, 120069>>, <<120071, 120074>>, <<120077, 120084>>, <<120086, 120092>>, <<120094, 120121>>, <<120123, 120126>>,
     <<120128, 120132>>, <<120134, 120134>>, <<120138, 120144>>, <<120146, 120485>>, <<120488, 120512>>, <<120514, 120538>>, <<120540, 120570>>, <<120572, 120596>>,
     <<120598, 120628>>, <<120630, 120654>>, <<120656, 120686>>, <<120688, 120712>>, <<120714, 120744>>, <<120746, 120770>>, <<120772, 120779>>, <<122624, 122633>>,
     <<122635, 122654>>, <<125184, 125251>>, <<127280, 127305>>, <<127312, 127337>>, <<127344, 127369>>
    }

\* The case-ignorable characters, as <<first, last>>
CaseIgnorableRanges ==
    {
     <<39, 39>>, <<46, 46>>, <<58, 58>>, <<94, 94>>, <<96, 96>>, <<168, 168>>, <<173, 173>>, <<175, 175>>,
     <<180, 180>>, <<183, 184>>, <<688, 879>>, <<884, 885>>, <<890, 890>>, <<900, 901>>, <<903, 903>>, <<1155, 1161>>,
     <<1369, 1369>>, <<1375, 1375>>, <<1425, 1469>>, <<1471, 1471>>, <<1473, 1474>>, <<1476, 1477>>, <<1479, 1479>>, <<1524, 1524>>,
     <<1536, 1541>>, <<1552, 1562>>, <<1564, 1564>>, <<1600, 1600>>, <<1611, 1631>>, <<1648, 1648>>, <<1750, 1757>>, <<1759, 1768>>,
     <<1770, 1773>>, <<1807, 1807>>, <<1809, 1809>>, <<1840, 1866>>, <<1958, 1968>>, <<2027, 2037>>, <<2042, 2042>>, <<2045, 2045>>,
     <<2070, 2093>>, <<2137, 2139>>, <<2184, 2184>>, <<2192, 2193>>, <<2200, 2207>>, <<2249, 2306>>, <<2362, 2362>>, <<2364, 2364>>,
     <<2369, 2376>>, <<2381, 2381>>, <<2385, 2391>>, <<2402, 2403>>, <<2417, 2417>>, <<2433, 2433>>, <<2492, 2492>>, <<2497, 2500>>,
     <<2509, 2509>>, <<2530, 2531>>, <<2558, 2558>>, <<2561, 2562>>, <<2620, 2620>>, <<2625, 2626>>, <<2631, 2632>>, <<2635, 2637>>,
     <<2641, 2641>>, <<2672, 2673>>, <<2677, 2677>>, <<2689, 2690>>, <<2748, 2748>>, <<2753, 2757>>, <<2759, 2760>>, <<2765, 2765>>,
     <<2786, 2787>>, <<2810, 2815>>, <<2817, 2817>>, <<2876, 2876>>, <<2879, 2879>>, <<2881, 2884>>, <<2893, 2893>>, <<2901, 2902>>,
     <<2914, 2915>>, <<2946, 2946>>, <<3008, 3008>>, <<3021, 3021>>, <<3072, 3072>>, <<3076, 3076>>, <<3132, 3132>>, <<3134, 3136>>,
     <<3142, 3144>>, <<3146, 3149>>, <<3157, 3158>>, <<3170, 3171>>, <<3201, 3201>>, <<3260, 3260>>, <<3263, 3263>>, <<3270, 3270>>,
     <<3276, 3277>>, <<3298, 3299>>, <<3328, 3329>>, <<3387, 3388>>, <<3393, 3396>>, <<3405, 3405>>, <<3426, 3427>>, <<3457, 3457>>,
     <<3530, 3530>>, <<3538, 3540>>, <<3542, 3542>>, <<3633, 3633>>, <<3636, 3642>>, <<3654, 3662>>, <<3761, 3761>>, <<3764, 3772>>,
     <<3782, 3782>>, <<3784, 3789>>, <<3864, 3865>>, <<3893, 3893>>, <<3895, 3895>>, <<3897, 3897>>, <<3953, 3966>>, <<3968, 3972>>,
     <<3974, 3975>>, <<3981, 3991>>, <<3993, 4028>>, <<4038, 4038>>, <<4141, 4144>>, <<4146, 4151>>, <<4153, 4154>>, <<4157, 4158>>,
     <<4184, 4185>>, <<4190, 4192>>, <<4209, 4212>>, <<4226, 4226>>, <<4229, 4230>>, <<4237, 4237>>, <<4253, 4253>>, <<4348, 4348>>,
     <<4957, 4959>>, <<5906, 5908>>, <<5938, 5939>>, <<5970, 5971>>, <<6002, 6003>>, <<6068, 6069>>, <<6071, 6077>>, <<6086, 6086>>,
     <<6089, 6099>>, <<6103, 6103>>, <<6109, 6109>>, <<6155, 6159>>, <<6211, 6211>>, <<6277, 6278>>, <<6313, 6313>>, <<6432, 6434>>,
     <<6439, 6440>>, <<6450, 6450>>, <<6457, 6459>>, <<6679, 6680>>, <<6683, 6683>>, <<6742, 6742>>, <<6744, 6750>>, <<6752, 6752>>,
     <<6754, 6754>>, <<6757, 6764>>, <<6771, 6780>>, <<6783, 6783>>, <<6823, 6823>>, <<6832, 6862>>, <<6912, 6915>>, <<6964, 6964>>,
     <<6966, 6970>>, <<6972, 6972>>, <<6978, 6978>>, <<7019, 7027>>, <<7040, 7041>>, <<7074, 7077>>, <<7080, 7081>>, <<7083, 7085>>,
     <<7142, 7142>>, <<7144, 7145>>, <<7149, 7149>>, <<7151, 7153>>, <<7212, 7219>>, <<7222, 7223>>, <<7288, 7293>>, <<7376, 7378>>,
     <<7380, 7392>>, <<7394, 7400>>, <<7405, 7405>>, <<7412, 7412>>, <<7416, 7417>>, <<7468, 7530>>, <<7544, 7544>>, <<7579, 7679>>,
     <<8125, 8125>>, <<8127, 8129>>, <<8141, 8143>>, <<8157, 8159>>, <<8173, 8175>>, <<8189, 8190>>, <<8203, 8207>>, <<8216, 8217>>,
     <<8228, 8228>>, <<8231, 8231>>, <<8234, 8238>>, <<8288, 8292>>, <<8294, 8303>>, <<8305, 8305>>, <<8319, 8319>>, <<8336, 8348>>,
     <<8400, 8432>>, <<11388, 11389>>, <<11503, 11505>>, <<11631, 11631>>, <<11647, 11647>>, <<11744, 11775>>, <<11823, 11823>>, <<12293, 12293>>,
     <<12330, 12333>>, <<12337, 12341>>, <<12347, 12347>>, <<12441, 12446>>, <<12540, 12542>>, <<40981, 40981>>, <<42232, 42237>>, <<42508, 42508>>,
     <<42607, 42610>>, <<42612, 42621>>, <<42623, 42623>>, <<42652, 42655>>, <<42736, 42737>>, <<42752, 42785>>, <<42864, 42864>>, <<42888, 42890>>,
     <<42994, 42996>>, <<43000, 43001>>, <<43010, 43010>>, <<43014, 43014>>, <<43019, 43019>>, <<43045, 43046>>, <<43052, 43052>>, <<43204, 43205>>,
     <<43232, 43249>>, <<43263, 43263>>, <<43302, 43309>>, <<43335, 43345>>, <<43392, 43394>>, <<43443, 43443>>, <<43446, 43449>>, <<43452, 43453>>,
     <<43471, 43471>>, <<43493, 43494>>, <<43561, 43566>>, <<43569, 43570>>, <<43573, 43574>>, <<43587, 43587>>, <<43596, 43596>>, <<43632, 43632>>,
     <<43644, 43644>>, <<43696, 43696>>, <<43698, 43700>>, <<43703, 43704>>, <<43710, 43711>>, <<43713, 43713>>, <<43741, 43741>>, <<43756, 43757>>,
     <<43763, 43764>>, <<43766, 43766>>, <<43867, 43871>>, <<43881, 43883>>, <<44005, 44005>>, <<44008, 44008>>, <<44013, 44013>>, <<64286, 64286>>,
     <<64434, 64450>>, <<65024, 65039>>, <<65043, 65043>>, <<65056, 65071>>, <<65106, 65106>>, <<65109, 65109>>, <<65279, 65279>>, <<65287, 65287>>,
     <<65294, 65294>>, <<65306, 65306>>, <<65342, 65342>>, <<65344, 65344>>, <<65392, 65392>>, <<65438, 65439>>, <<65507, 65507>>, <<65529, 65531>>,
     <<66045, 66045>>, <<66272, 66272>>, <<66422, 66426>>, <<67456, 67461>>, <<67463, 67504>>, <<67506, 67514>>, <<68097, 68099>>, <<68101, 68102>>,
     <<68108, 68111>>, <<68152, 68154>>, <<68159, 68159>>, <<68325, 68326>>, <<68900, 68903>>, <<69291, 69292>>, <<69446, 69456>>, <<69506, 69509>>,
     <<69633, 69633>>, <<69688, 69702>>, <<69744, 69744>>, <<69747, 69748>>, <<69759, 69761>>, <<69811, 69814>>, <<69817, 69818>>, <<69821, 69821>>,
     <<69826, 69826>>, <<69837, 69837>>, <<69888, 69890>>, <<69927, 69931>>, <<69933, 69940>>, <<70003, 70003>>, <<70016, 70017>>, <<70070, 70078>>,
     <<70089, 70092>>, <<70095, 70095>>, <<70191, 70193>>, <<70196, 70196>>, <<70198, 70199>>, <<70206, 70206>>, <<70367, 70367>>, <<70371, 70378>>,
     <<70400, 70401>>, <<70459, 70460>>, <<70464, 70464>>, <<70502, 70508>>, <<70512, 70516>>, <<70712, 70719>>, <<70722, 70724>>, <<70726, 70726>>,
     <<70750, 70750>>, <<70835, 70840>>, <<70842, 70842>>, <<70847, 70848>>, <<70850, 70851>>, <<71090, 71093>>, <<71100, 71101>>, <<71103, 71104>>,
     <<71132, 71133>>, <<71219, 71226>>, <<71229, 71229>>, <<71231, 71232>>, <<71339, 71339>>, <<71341, 71341>>, <<71344, 71349>>, <<71351, 71351>>,
     <<71453, 71455>>, <<71458, 71461>>, <<71463, 71467>>, <<71727, 71735>>, <<71737, 71738>>, <<71995, 71996>>, <<71998, 71998>>, <<72003, 72003>>,
     <<72148, 72151>>, <<72154, 72155>>, <<72160, 72160>>, <<72193, 72202>>, <<72243, 72248>>, <<72251, 72254>>, <<72263, 72263>>, <<72273, 72278>>,
     <<72281, 72283>>, <<72330, 72342>>, <<72344, 72345>>, <<72752, 72758>>, <<72760, 72765>>, <<72767, 72767>>, <<72850, 72871>>, <<72874, 72880>>,
     <<72882, 72883>>, <<72885, 72886>>, <<73009, 73014>>, <<73018, 73018>>, <<73020, 73021>>, <<73023, 73029>>, <<73031, 73031>>, <<73104, 73105>>,
     <<73109, 73109>>, <<73111, 73111>>, <<73459, 73460>>, <<78896, 78904>>, <<92912, 92916>>, <<92976, 92982>>, <<92992, 92995>>, <<94031, 94031>>,
     <<94095, 94111>>, <<94176, 94177>>, <<94179, 94180>>, <<110576, 110579>>, <<110581, 110587>>, <<110589, 110590>>, <<113821, 113822>>, <<113824, 113827>>,
     <<118528, 118573>>, <<118576, 118598>>, <<119143, 119145>>, <<119155, 119170>>, <<119173, 119179>>, <<119210, 119213>>, <<119362, 119364>>, <<121344, 121398>>,
     <<121403, 121452>>, <<121461, 121461>>, <<121476, 121476>>, <<121499, 121503>>, <<121505, 121519>>, <<122880, 122886>>, <<122888, 122904>>, <<122907, 122913>>,
     <<122915, 122916>>, <<122918, 122922>>, <<123184, 123197>>, <<123566, 123566>>, <<123628, 123631>>, <<125136, 125142>>, <<125252, 125259>>, <<127995, 127999>>,
     <<917505, 917505>>, <<917536, 917631>>, <<917760, 917999>>
    }

\* c lies in one of the ranges <<first, last>> of R
InRanges(c, R) == \E r \in R : r[1] <= c /\ c <= r[2]

\* c.lower() for the one-character string of c: capital I with dot above
\* gives 'i' and a combining dot, every other character the one character
\* of the simple mapping
LowerChar(c) ==
    IF c = 304 THEN <<105, 775>>
    ELSE IF c < 128 THEN (IF c >= 65 /\ c <= 90 THEN <<c + 32>> ELSE <<c>>)
    ELSE Only({IF hits = {} THEN <<c>> ELSE <<c + SetMin(hits)>> :
                 hits \in {{r[4] : r \in {x \in LowerRanges :
                                x[1] <= c /\ c <= x[2] /\ (c - x[1]) % x[3] = 0}}}})

\* the capital sigma at the 1-based position i of s is final: the nearest
\* character before it that is not case-ignorable is cased, and the nearest
\* one after it, if any, is not
FinalSigma(s, i) ==
    LET before == {j \in 1..(i - 1) : ~InRanges(s[j], CaseIgnorableRanges)}
        after == {j \in (i + 1)..Len(s) : ~InRanges(s[j], CaseIgnorableRanges)}
    IN  /\ before # {}
        /\ InRanges(s[SetMax(before)], CasedRanges)
        /\ (after = {} \/ ~InRanges(s[SetMin(after)], CasedRanges))

\* the lower case of the character at the 1-based position i of s: a
\* capital sigma by its position, every other character by itself
LowerAt(s, i) ==
    IF s[i] = 931 THEN (IF FinalSigma(s, i) THEN <<962>> ELSE <<963>>)
    ELSE LowerChar(s[i])

\* s.lower()
Lower(s) == ConcatAll([i \in 1..Len(s) |-> LowerAt(s, i)])

\* os.path.splitext(p) on a POSIX path: <<root, ext>>
splitext(p) ==
    LET sepIndex == RFind(p, S_slash)
        dotIndex == RFind(p, S_dot)
    IN  IF /\ dotIndex > sepIndex
           /\ \E f \in (sepIndex + 1)..(dotIndex - 1) : p[f + 1] # S_dot[1]
        THEN <<SubSeq(p, 1, dotIndex), SubSeq(p, dotIndex + 1, Len(p))>>
        ELSE <<p, <<>>>>

SeqsUpTo(S, n) == UNION {[1..k -> S] : k \in 0..n}

(***************************************************************************)
(* guess_container_from_mime                                               *)
(***************************************************************************)
guess_container_mpegLast(mime) ==
    LET m == Lower(mime)
    IN  IF Contains(m, S_mp4) THEN S_m4a
        ELSE IF Contains(m, S_ogg) THEN S_ogg
        ELSE S_mp3

guess_container_from_mime(mime) ==
    LET m == Lower(mime)
    IN  IF Contains(m, S_mpeg) THEN S_mp3
        ELSE IF Contains(m, S_mp4) THEN S_m4a
        ELSE IF Contains(m, S_ogg) THEN S_ogg
        ELSE S_mp3

(***************************************************************************)
(* Transcodings.  A transcoding is a record [preset, quality, format];     *)
(* format is [k, mime_type, protocol] with k = "absent" when the entry has *)
(* no 'format' key.                                                        *)
(***************************************************************************)
Format(mime, protocol) == [k |-> "obj", mime_type |-> Str(mime), protocol |-> Str(protocol)]
NoFormat == [k |-> "absent", mime_type |-> Absent, protocol |-> Absent]

Presets == {Str(S_aac_160k), Str(S_mp3_0_1), Str(S_opus_0_0), Str(S_abr_sq)}
Qualities == {Str(S_hq), Str(S_sq)}
Formats == {Format(S_audio_mp4, S_hls), Format(S_audio_mpeg, S_progressive),
            Format(S_audio_ogg, S_ctr_encrypted_hls), NoFormat}

TranscodingValues == [preset : Presets, quality : Qualities, format : Formats]

\* t.get('format', {}).get('protocol', '')
ProtocolOf(t) == IF t.format.k = "absent" THEN S_empty ELSE GetStr(t.format.protocol, S_empty).s

\* t.get('preset', '')
PresetOf(t) == GetStr(t.preset, S_empty).s

\* one pass of the loop body of filter_transcodings: is t kept?
Keeps(t, quality, preset_prefix) ==
    /\ ~Contains(ProtocolOf(t), S_encrypted)
    /\ (quality.k # "null" => t.quality = quality)
    /\ (preset_prefix.k # "null" => StartsWith(PresetOf(t), preset_prefix.s))

filter_transcodings_keepEncrypted(transcodings_list, quality, preset_prefix) ==
    SelectSeq(transcodings_list,
              LAMBDA t : /\ (quality.k # "null" => t.quality = quality)
                         /\ (preset_prefix.k # "null" => StartsWith(PresetOf(t), preset_prefix.s)))

\* filter_transcodings(transcodings_list, quality=None, preset_prefix=None)
filter_transcodings(transcodings_list, quality, preset_prefix) ==
    SelectSeq(transcodings_list, LAMBDA t : Keeps(t, quality, preset_prefix))

(***************************************************************************)
(* More Python string operations, used by soundcloud_get_track_metadata.   *)
(***************************************************************************)
\* c is one of the characters that str.strip() removes
IsSpace(c) ==
    c \in {9, 10, 11, 12, 13, 28, 29, 30, 31, 32, 133, 160, 5760, 8192, 8193, 8194, 8195, 8196, 8197, 8198, 8199, 8200, 8201, 8202, 8232, 8233, 8239, 8287, 12288}

\* s[a:b].strip()
StripRange(s, a, b) ==
    Only({IF inked = {} THEN <<>> ELSE SubSeq(s, SetMin(inked) + 1, SetMax(inked) + 1) :
            inked \in {{i \in a..(b - 1) : ~IsSpace(s[i + 1])}}})

\* s.strip()
Strip(s) == StripRange(s, 0, Len(s))

\* [item.strip() for item in s[from:].split(sep)]
RECURSIVE SplitStripFrom(_, _, _)
SplitStripFrom(s, sep, from) ==
    Only({IF p = -1 THEN <<StripRange(s, from, Len(s))>>
          ELSE <<StripRange(s, from, p)>> \o SplitStripFrom(s, sep, p + Len(sep)) :
            p \in {FindFrom(s, sep, from)}})

\* s.split(sep)[0]
SplitFirst(s, sep) ==
    Only({IF p = -1 THEN s ELSE SubSeq(s, 1, p) : p \in {Find(s, sep)}})

\* sep.join(items)
RECURSIVE Join(_, _)
Join(items, sep) ==
    IF items = <<>> THEN <<>>
    ELSE IF Len(items) = 1 THEN items[1]
    ELSE items[1] \o sep \o Join(Tail(items), sep)

\* str(n) for an integer; 45 is the minus sign
RECURSIVE IntToStr(_)
IntToStr(n) ==
    IF n < 0 THEN <<45>> \o IntToStr(-n)
    ELSE IF n < 10 THEN <<S_digits[n + 1]>>
    ELSE IntToStr(n \div 10) \o <<S_digits[(n % 10) + 1]>>

\* the result of re.search: a match with its group(1), or None
NoMatch == [found |-> FALSE, group |-> <<>>]
Match(g) == [found |-> TRUE, group |-> g]

\* re.search(r'href="([^"]*)"', s[start:])
SearchHref(s, start) ==
    Only({Only({IF p = -1 \/ q = -1 THEN NoMatch
                ELSE Match(SubSeq(s, p + Len(S_href_open) + 1, q)) :
                  q \in {IF p = -1 THEN -1 ELSE FindFrom(s, S_quote, p + Len(S_href_open))}}) :
            p \in {FindFrom(s, S_href_open, start)}})

\* r'<a[^>]*>(.*?)</a>' matched at the 0-based position i of s: '<a', then
\* up to the first '>', then the shortest text without a newline up to '</a>'
AnchorAt(s, i) ==
    IF ~OccursAt(s, S_lt_a, i) THEN NoMatch
    ELSE Only({Only({IF g = -1 \/ e = -1 \/ \E n \in (g + 1)..(e - 1) : OccursAt(s, S_newline, n)
                     THEN NoMatch
                     ELSE Match(SubSeq(s, g + 2, e)) :
                       e \in {IF g = -1 THEN -1 ELSE FindFrom(s, S_close_a, g + 1)}}) :
                 g \in {FindFrom(s, S_gt, i + Len(S_lt_a))}})

\* re.search(r'<a[^>]*>(.*?)</a>', s[start:]): the leftmost match
SearchAnchor(s, start) ==
    Only({IF at = {} THEN NoMatch ELSE AnchorAt(s, SetMin(at)) :
            at \in {{i \in start..(Len(s) - Len(S_lt_a)) : AnchorAt(s, i).found}}})

\* a variant that searches the href from the start of the page
AlbumHref_fromPageStart(page, start) == IF start = -1 THEN NoMatch ELSE SearchHref(page, 0)

\* lines 392-394: the href searched from the marker, None without marker
AlbumHref(page, start) == IF start = -1 THEN NoMatch ELSE SearchHref(page, start)

\* utils.conv_list_format: the items joined by the configured separator,
\* '' for an empty list or an empty string
conv_list_format(items) ==
    Only({IF Len(its) = 0 THEN <<>> ELSE Join(its, S_separator) : its \in {items}})

(***************************************************************************)
(* The records soundcloud_get_track_metadata reads.                        *)
(*   track record: [k, permalink_url, id, title, publisher_metadata, user, *)
(*                  release_date, last_modified, media, label_name]        *)
(*   k = "none" is the None that make_call returns for a failed request.   *)
(* artwork_url, description and streamable are copied to the result with   *)
(* .get, and genre is handed to utils.conv_list_format as a one-element    *)
(* list; the four are taken as present and are not modelled.               *)
(***************************************************************************)
PublisherMetadata(artist, album_name, c_line) ==
    [k |-> "obj", artist |-> artist, album_name |-> album_name, c_line |-> c_line]
NoPublisherMetadata(kind) == [k |-> kind, artist |-> Absent, album_name |-> Absent, c_line |-> Absent]

User(username) == [k |-> "obj", username |-> username]
NoUser(kind) == [k |-> kind, username |-> Absent]

MetaTranscodings(items) == [k |-> "list", items |-> items]
MetaMedia(transcodings) == [k |-> "obj", transcodings |-> transcodings]
NoMetaMedia(kind) == [k |-> kind, transcodings |-> [k |-> "absent", items |-> <<>>]]

PermalinkValues == {Str(S_permalink), Absent}
IdValues == {Num(2), Absent}
TitleValues == {Str(S_title), Absent}
PublisherMetadataValues ==
    {PublisherMetadata(Str(S_artist), Absent, Str(S_c_line)),
     PublisherMetadata(Str(S_artist), Str(S_pm_album), Str(S_c_line)),
     PublisherMetadata(Absent, Absent, Absent),
     NoPublisherMetadata("null"),
     NoPublisherMetadata("absent")}
UserValues == {User(Str(S_username)), NoUser("null"), NoUser("absent")}
ReleaseDateValues == {Str(S_release_date), Str(S_empty), Null, Absent}
LastModifiedValues == {Str(S_last_modified), Null, Absent}
MediaValues ==
    {MetaMedia(MetaTranscodings(<<[duration |-> Num(215000)]>>)),
     MetaMedia(MetaTranscodings(<<[duration |-> Absent]>>)),
     MetaMedia(MetaTranscodings(<<[duration |-> Null]>>)),
     MetaMedia(MetaTranscodings(<<[duration |-> Str(<<55>>)]>>)),   \* '7'
     MetaMedia(MetaTranscodings(<<>>)),
     MetaMedia([k |-> "absent", items |-> <<>>]),
     NoMetaMedia("null"),
     NoMetaMedia("absent")}
LabelValues == {Str(S_label), Absent}

\* the fully populated record the varied records are measured against
ReferenceTrack ==
    [k |-> "obj",
     permalink_url |-> Str(S_permalink),
     id |-> Num(2),
     title |-> Str(S_title),
     publisher_metadata |-> PublisherMetadata(Str(S_artist), Absent, Str(S_c_line)),
     user |-> User(Str(S_username)),
     release_date |-> Str(S_release_date),
     last_modified |-> Str(S_last_modified),
     media |-> MetaMedia(MetaTranscodings(<<[duration |-> Num(215000)]>>)),
     label_name |-> Str(S_label)]

TrackFields == {"permalink_url", "id", "title", "publisher_metadata", "user",
                "release_date", "last_modified", "media", "label_name"}

\* the track records of the model: at most MaxVariedFields fields differ
\* from the reference record
TrackRecords ==
    {r \in [k : {"obj"}, permalink_url : PermalinkValues, id : IdValues, title : TitleValues,
            publisher_metadata : PublisherMetadataValues, user : UserValues,
            release_date : ReleaseDateValues, last_modified : LastModifiedValues,
            media : MediaValues, label_name : LabelValues] :
        Cardinality({f \in TrackFields : r[f] # ReferenceTrack[f]}) <= MaxVariedFields}

NoTrackRecord == [ReferenceTrack EXCEPT !.k = "none"]

\* the text of '<permalink>/albums': None for a failed request, or a string
NoText == [k |-> "none", s |-> <<>>]
Text(s) == [k |-> "str", s |-> s]

PageChunks == {S_marker, Chunk_album_anchor, Chunk_users_anchor, Chunk_plain_anchor}

\* the pages of up to MaxPageChunks pieces, and a page with two links after
\* the marker
Webpages ==
    {ConcatAll(cs) : cs \in SeqsUpTo(PageChunks, MaxPageChunks)}
    \cup {S_marker \o Chunk_users_anchor \o Chunk_album_anchor}

\* the album record of /resolve: None, or [track_count, tracks]
NoAlbum == [k |-> "none", track_count |-> Absent, tracks |-> [k |-> "absent", items |-> <<>>]]
Album(track_count, tracks) == [k |-> "obj", track_count |-> track_count, tracks |-> tracks]

AlbumTrackValues == {[id |-> Num(1)], [id |-> Num(2)], [id |-> Absent]}
\* without 'track_count' the tracks are never read
AlbumRecords ==
    {Album(Num(3), [k |-> "list", items |-> l]) : l \in SeqsUpTo(AlbumTrackValues, MaxAlbumTracks)}
    \cup {Album(Num(3), [k |-> "absent", items |-> <<>>]),
          Album(Absent, [k |-> "list", items |-> <<[id |-> Num(2)]>>])}

\* the outcomes of utils.make_call: the decoded response, None for a status
\* other than 200, or an exception of the transport
CallOutcomes == {"ok", "none", "raise"}

(***************************************************************************)
(* soundcloud_get_track_metadata: the computations of lines 401-475.  A    *)
(* computation that can raise yields [err, v]: err is "none" or the name   *)
(* of the exception that leaves the function.                              *)
(***************************************************************************)
Ok(v) == [err |-> "none", v |-> v]
Raises(e) == [err |-> e, v |-> Absent]

\* track_data.get('user', {}).get('username', '')
UsernameOf(td) ==
    IF td.user.k = "null" THEN Raises("AttributeError")
    ELSE IF td.user.k = "absent" THEN Ok(Str(S_empty))
    ELSE Ok(GetStr(td.user.username, S_empty))

\* lines 401-410: the artists
ArtistsOf(td) ==
    LET pm == td.publisher_metadata
        artist == IF pm.k = "absent" THEN Str(S_empty) ELSE GetStr(pm.artist, S_empty)
    IN  Only({IF joined # <<>> THEN Ok(Str(joined)) ELSE UsernameOf(td) :
                joined \in {conv_list_format(IF pm.k = "null" \/ artist.k # "str"
                                             THEN <<>>
                                             ELSE SplitStripFrom(artist.s, S_comma, 0))}})

\* the loop of lines 416-419: the 1-based position of the first entry whose
\* id is the track's, the length of the list when the loop runs to its
\* end, or -1 when trk['id'] or track_data['id'] raises KeyError
RECURSIVE ScanTracks(_, _, _)
ScanTracks(items, track_id, n) ==
    IF n >= Len(items) THEN n
    ELSE IF items[n + 1].id.k = "absent" \/ track_id.k = "absent" THEN -1
    ELSE IF items[n + 1].id = track_id THEN n + 1
    ELSE ScanTracks(items, track_id, n + 1)

SingleDefaults == [total_tracks |-> Str(S_one), track_number |-> Str(S_one), album_type |-> Str(S_single)]

TrackNumbering_keepCount(album, td) ==
    IF album.k = "none" \/ album.track_count.k = "absent"
    THEN SingleDefaults
    ELSE IF album.tracks.k # "list" \/ ScanTracks(album.tracks.items, td.id, 0) = -1
    THEN [SingleDefaults EXCEPT !.total_tracks = album.track_count]
    ELSE [total_tracks |-> album.track_count,
          track_number |-> Num(ScanTracks(album.tracks.items, td.id, 0)),
          album_type |-> Str(S_album)]

\* lines 412-424: total_tracks, track_number and album_type; KeyError and
\* TypeError anywhere in the try block give the defaults for all three
TrackNumbering(album, td) ==
    IF \/ album.k = "none"
       \/ album.track_count.k = "absent"
       \/ album.tracks.k # "list"
    THEN SingleDefaults
    ELSE LET track_number == ScanTracks(album.tracks.items, td.id, 0)
         IN  IF track_number = -1
             THEN SingleDefaults
             ELSE [total_tracks |-> album.track_count,
                   track_number |-> Num(track_number),
                   album_type |-> Str(S_album)]

\* the text that lines 431-434 scrape: group(1) of the anchor pattern
\* searched from the marker, '' without marker or match
ScrapedAlbumName(page, start) ==
    IF start = -1 THEN S_empty
    ELSE Only({IF a_tag_match.found THEN a_tag_match.group ELSE S_empty :
                 a_tag_match \in {SearchAnchor(page, start)}})

AlbumNameOf_scrapeFirst(td, page, start) ==
    IF start = -1 /\ td.publisher_metadata.k = "obj" /\ td.publisher_metadata.album_name.k # "absent"
    THEN Ok(td.publisher_metadata.album_name)
    ELSE Only({IF StartsWith(scraped, S_users_who_like)
               THEN (IF td.title.k = "absent" THEN Raises("KeyError") ELSE Ok(td.title))
               ELSE Ok(Str(scraped)) :
                 scraped \in {ScrapedAlbumName(page, start)}})

\* lines 426-436: the album name
AlbumNameOf(td, page, start) ==
    IF td.publisher_metadata.k = "obj" /\ td.publisher_metadata.album_name.k # "absent"
    THEN Ok(td.publisher_metadata.album_name)
    ELSE Only({IF StartsWith(scraped, S_users_who_like)
               THEN (IF td.title.k = "absent" THEN Raises("KeyError") ELSE Ok(td.title))
               ELSE Ok(Str(scraped)) :
                 scraped \in {ScrapedAlbumName(page, start)}})

\* lines 438-446: the copyright
CopyrightOf(td) ==
    LET pm == td.publisher_metadata
    IN  IF pm.k = "obj" /\ pm.c_line.k = "str" /\ pm.c_line.s # <<>>
        THEN conv_list_format(SplitStripFrom(pm.c_line.s, S_comma, 0))
        ELSE conv_list_format(<<>>)

\* lines 458-460: the release year
ReleaseYearOf(td) ==
    LET release_date == GetStr(td.release_date, S_empty)
        last_modified == GetStr(td.last_modified, S_empty)
    IN  IF release_date.k = "str" /\ release_date.s # <<>>
        THEN Ok(Str(SplitFirst(release_date.s, S_dash)))
        ELSE IF last_modified.k = "null" THEN Raises("AttributeError")
        ELSE Ok(Str(SplitFirst(last_modified.s, S_dash)))

\* line 465: str(track_data.get("media", {}).get("transcodings", [{}])[0].get("duration", 0));
\* the default 0 stands in for a missing key only, a stored null is written 'None'
LengthOf(td) ==
    IF td.media.k = "null" THEN Raises("AttributeError")
    ELSE IF td.media.k = "absent" \/ td.media.transcodings.k = "absent" THEN Ok(Str(IntToStr(0)))
    ELSE IF td.media.transcodings.items = <<>> THEN Raises("IndexError")
    ELSE LET duration == td.media.transcodings.items[1].duration
         IN  IF duration.k = "absent" THEN Ok(Str(IntToStr(0)))
             ELSE IF duration.k = "null" THEN Ok(Str(S_None))
             ELSE IF duration.k = "str" THEN Ok(Str(duration.s))
             ELSE Ok(Str(IntToStr(duration.n)))

\* the result dict; Absent stands for a key that is not set
NoInfo ==
    [label |-> Absent, item_url |-> Absent, release_year |-> Absent, title |-> Absent,
     track_number |-> Absent, total_tracks |-> Absent, length |-> Absent, artists |-> Absent,
     album_name |-> Absent, album_type |-> Absent, album_artists |-> Absent,
     copyright |-> Absent, item_id |-> Absent]

\* the first exception raised by lines 401-475, in the order of the lines
FirstError(results) ==
    LET bad == {i \in 1..Len(results) : results[i].err # "none"}
    IN  IF bad = {} THEN "none" ELSE results[SetMin(bad)].err

\* lines 401-475: [err, info]
BuildInfoOf(td, page, start, album) ==
    Only({[err |-> FirstError(<<artists, album_name, release_year, length, album_artists>>),
           info |-> [label |-> IF label.k = "str" /\ label.s # <<>> THEN label ELSE Absent,
                     item_url |-> GetStr(td.permalink_url, S_empty),
                     release_year |-> release_year.v,
                     title |-> GetStr(td.title, S_empty),
                     track_number |-> numbering.track_number,
                     total_tracks |-> numbering.total_tracks,
                     length |-> length.v,
                     artists |-> artists.v,
                     album_name |-> album_name.v,
                     album_type |-> numbering.album_type,
                     album_artists |-> album_artists.v,
                     copyright |-> Str(CopyrightOf(td)),
                     item_id |-> GetStr(td.id, S_empty)]] :
            artists \in {ArtistsOf(td)},
            numbering \in {TrackNumbering(album, td)},
            album_name \in {AlbumNameOf(td, page, start)},
            release_year \in {ReleaseYearOf(td)},
            length \in {LengthOf(td)},
            album_artists \in {UsernameOf(td)},
            label \in {GetStr(td.label_name, S_empty)}})

(***************************************************************************)
(* soundcloud_download_track                                               *)
(***************************************************************************)
NoTranscoding == [preset |-> Absent, quality |-> Absent, format |-> NoFormat]
NoneChosen == [k |-> "none", t |-> NoTranscoding]
Some(t) == [k |-> "some", t |-> t]

\* the JSON of /tracks/<item_id>, as far as soundcloud_download_track reads it
NoMedia == [k |-> "absent", transcodings |-> [k |-> "absent", items |-> <<>>]]
Media(trs) == [k |-> "obj", transcodings |-> trs]
NoTrackData == [media |-> NoMedia]
TrackDatas ==
    {[media |-> NoMedia], [media |-> Media([k |-> "absent", items |-> <<>>])]}
    \cup {[media |-> Media([k |-> "list", items |-> l])] :
            l \in SeqsUpTo(TranscodingValues, MaxTranscodings)}

\* track_data.get("media", {}).get("transcodings", [])
Transcodings(td) ==
    IF td.media.k = "absent" \/ td.media.transcodings.k = "absent"
    THEN <<>>
    ELSE td.media.transcodings.items

\* the status codes of the /tracks/<item_id> response; 302 is a redirect
\* that was not followed
Statuses == {200, 302, 401, 403, 404, 500}

\* the JSON bodies of a response: any track data with status 200, no media
\* or a single transcoding with a redirect status, and no media with an
\* error status
ResponseBodies(st) ==
    IF st >= 200 /\ st < 300 THEN TrackDatas
    ELSE IF st >= 300 /\ st < 400
         THEN {NoTrackData}
              \cup {[media |-> Media([k |-> "list", items |-> <<t>>])] :
                       t \in TranscodingValues}
    ELSE {NoTrackData}

\* a variant of raise_for_status that raises on server errors only
raise_for_status_serverErrorsOnly(st) == st >= 500 /\ st < 600

\* line 495: response.raise_for_status() raises HTTPError for a status from
\* 400 to 599 and returns for every other status
raise_for_status(st) == st >= 400 /\ st < 600

\* None, '' or a path
NoPath == [k |-> "null", s |-> <<>>, n |-> 0]
OutputPaths == {NoPath, Str(S_empty), Str(S_song_flac), Str(S_dir_song)}

\* "2) Choose the best transcoding": the cascade of lines 566-591
ChooseBestTranscoding_lastHQ(trs, preferHQ) ==
    LET hq_candidates == filter_transcodings(trs, Str(S_hq), Null)
        aac_candidates == filter_transcodings(trs, Null, Str(S_aac_))
        mp3_candidates == filter_transcodings(trs, Null, Str(S_mp3_))
        opus_candidates == filter_transcodings(trs, Null, Str(S_opus_))
    IN  IF preferHQ /\ hq_candidates # <<>> THEN Some(hq_candidates[Len(hq_candidates)])
        ELSE IF aac_candidates # <<>> THEN Some(aac_candidates[1])
        ELSE IF mp3_candidates # <<>> THEN Some(mp3_candidates[1])
        ELSE IF opus_candidates # <<>> THEN Some(opus_candidates[1])
        ELSE NoneChosen

ChooseBestTranscoding_mp3First(trs, preferHQ) ==
    LET hq_candidates == filter_transcodings(trs, Str(S_hq), Null)
        aac_candidates == filter_transcodings(trs, Null, Str(S_aac_))
        mp3_candidates == filter_transcodings(trs, Null, Str(S_mp3_))
        opus_candidates == filter_transcodings(trs, Null, Str(S_opus_))
    IN  IF preferHQ /\ hq_candidates # <<>> THEN Some(hq_candidates[1])
        ELSE IF mp3_candidates # <<>> THEN Some(mp3_candidates[1])
        ELSE IF aac_candidates # <<>> THEN Some(aac_candidates[1])
        ELSE IF opus_candidates # <<>> THEN Some(opus_candidates[1])
        ELSE NoneChosen

ChooseBestTranscoding_anyFallback(trs, preferHQ) ==
    LET hq_candidates == filter_transcodings(trs, Str(S_hq), Null)
        aac_candidates == filter_transcodings(trs, Null, Str(S_aac_))
        mp3_candidates == filter_transcodings(trs, Null, Str(S_mp3_))
        opus_candidates == filter_transcodings(trs, Null, Str(S_opus_))
    IN  IF preferHQ /\ hq_candidates # <<>> THEN Some(hq_candidates[1])
        ELSE IF aac_candidates # <<>> THEN Some(aac_candidates[1])
        ELSE IF mp3_candidates # <<>> THEN Some(mp3_candidates[1])
        ELSE IF opus_candidates # <<>> THEN Some(opus_candidates[1])
        ELSE IF trs # <<>> THEN Some(trs[1])
        ELSE NoneChosen

ChooseBestTranscoding(trs, preferHQ) ==
    LET hq_candidates == filter_transcodings(trs, Str(S_hq), Null)
        aac_candidates == filter_transcodings(trs, Null, Str(S_aac_))
        mp3_candidates == filter_transcodings(trs, Null, Str(S_mp3_))
        opus_candidates == filter_transcodings(trs, Null, Str(S_opus_))
    IN  IF preferHQ /\ hq_candidates # <<>> THEN Some(hq_candidates[1])
        ELSE IF aac_candidates # <<>> THEN Some(aac_candidates[1])
        ELSE IF mp3_candidates # <<>> THEN Some(mp3_candidates[1])
        ELSE IF opus_candidates # <<>> THEN Some(opus_candidates[1])
        ELSE NoneChosen

\* the value of `return output_path, chosen`, and of falling off the end
NoReturn == [k |-> "pending", path |-> <<>>, t |-> NoTranscoding]
ReturnNone == [k |-> "none", path |-> <<>>, t |-> NoTranscoding]
ReturnTuple(path, t) == [k |-> "tuple", path |-> path, t |-> t]

\* lines 601-610: the container, the output path, and the return statement,
\* which is inside the else branch: with no output_path the function falls
\* off its end and returns None
OutputPathAndReturn(op, item_id, t) ==
    LET mime == IF t.format.k = "absent" THEN S_empty ELSE GetStr(t.format.mime_type, S_empty).s
        cont == guess_container_from_mime(mime)
        base_path == splitext(IF op.k = "null" THEN S_empty ELSE op.s)[1]
    IN  IF op.k = "null" \/ op.s = <<>>
        THEN [local_path |-> S_soundcloud_ \o item_id \o S_dot \o cont,
              returned |-> ReturnNone]
        ELSE [local_path |-> base_path \o S_dot \o cont,
              returned |-> ReturnTuple(base_path \o S_dot \o cont, t)]

Init ==
    /\ pc = "start"
    /\ hq \in BOOLEAN
    /\ output_path \in OutputPaths
    /\ status = 0
    /\ track_data = NoTrackData
    /\ chosen = NoneChosen
    /\ ret = NoReturn
    /\ err = "none"
    /\ gpc = "idle"
    /\ mime_type = <<>>
    /\ container = <<>>
    /\ mpc = "idle"
    /\ m_track_data = NoTrackRecord
    /\ track_webpage = NoText
    /\ start_index = -1
    /\ album_data = NoAlbum
    /\ info = NoInfo
    /\ merr = "none"
    /\ fetches = <<>>

\* soundcloud_fetch_track_data: raise_for_status() raises on 4xx and 5xx
FetchTrackData ==
    /\ pc = "start"
    /\ \E st \in Statuses : \E td \in ResponseBodies(st) :
        /\ status' = st
        /\ IF raise_for_status(st)
           THEN /\ pc' = "raised"
                /\ err' = "HTTPError"
                /\ track_data' = track_data
           ELSE /\ pc' = "fetched"
                /\ err' = err
                /\ track_data' = td
    /\ UNCHANGED <<hq, output_path, chosen, ret>>
    /\ UNCHANGED <<gvars, mvars>>

\* lines 552-554: if not transcodings: raise
CheckTranscodings ==
    /\ pc = "fetched"
    /\ IF Transcodings(track_data) = <<>>
       THEN pc' = "raised" /\ err' = "NoTranscodings"
       ELSE pc' = "checked" /\ err' = err
    /\ UNCHANGED <<hq, output_path, status, track_data, chosen, ret>>
    /\ UNCHANGED <<gvars, mvars>>

\* lines 566-595: the cascade, then if not chosen: raise
ChooseTranscoding ==
    /\ pc = "checked"
    /\ chosen' = ChooseBestTranscoding(Transcodings(track_data), hq)
    /\ IF chosen'.k = "none"
       THEN pc' = "raised" /\ err' = "NoSuitable"
       ELSE pc' = "chosen" /\ err' = err
    /\ UNCHANGED <<hq, output_path, status, track_data, ret>>
    /\ UNCHANGED <<gvars, mvars>>

\* lines 597-599: chosen['preset'], chosen['format']['protocol'] and
\* chosen['format']['mime_type'] raise KeyError on a missing key
LogChosen ==
    /\ pc = "chosen"
    /\ IF \/ chosen.t.preset.k = "absent"
          \/ chosen.t.format.k = "absent"
          \/ chosen.t.format.protocol.k = "absent"
          \/ chosen.t.format.mime_type.k = "absent"
       THEN pc' = "raised" /\ err' = "KeyError"
       ELSE pc' = "logged" /\ err' = err
    /\ UNCHANGED <<hq, output_path, status, track_data, chosen, ret>>
    /\ UNCHANGED <<gvars, mvars>>

\* lines 601-610
ReturnOutputPath ==
    /\ pc = "logged"
    /\ ret' = OutputPathAndReturn(output_path, S_item_id, chosen.t).returned
    /\ pc' = "returned"
    /\ UNCHANGED <<hq, output_path, status, track_data, chosen, err>>
    /\ UNCHANGED <<gvars, mvars>>

Next ==
    \/ FetchTrackData
    \/ CheckTranscodings
    \/ ChooseTranscoding
    \/ LogChosen
    \/ ReturnOutputPath

Spec == Init /\ [][Next]_vars

(***************************************************************************)
(* guess_container_from_mime called on its own, on media types built from  *)
(* up to MaxMimeChunks pieces.                                             *)
(***************************************************************************)
MimeChunks == {S_audio_, S_mpeg, S_mp4, S_ogg, S_MP, S_EG, S_four, S_x_unknown}

MimeTypes == {ConcatAll(cs) : cs \in SeqsUpTo(MimeChunks, MaxMimeChunks)}

GuessInit ==
    /\ pc = "idle"
    /\ hq = FALSE
    /\ output_path = NoPath
    /\ status = 0
    /\ track_data = NoTrackData
    /\ chosen = NoneChosen
    /\ ret = NoReturn
    /\ err = "none"
    /\ gpc = "start"
    /\ mime_type \in MimeTypes
    /\ container = <<>>
    /\ mpc = "idle"
    /\ m_track_data = NoTrackRecord
    /\ track_webpage = NoText
    /\ start_index = -1
    /\ album_data = NoAlbum
    /\ info = NoInfo
    /\ merr = "none"
    /\ fetches = <<>>

GuessContainer ==
    /\ gpc = "start"
    /\ container' = guess_container_from_mime(mime_type)
    /\ gpc' = "done"
    /\ UNCHANGED mime_type
    /\ UNCHANGED <<dvars, mvars>>

GuessNext == GuessContainer

GuessSpec == GuessInit /\ [][GuessNext]_vars

(***************************************************************************)
(* soundcloud_get_track_metadata                                           *)
(***************************************************************************)
Fetch(what, arg) == [what |-> what, arg |-> arg]

MetaInit ==
    /\ pc = "idle"
    /\ hq = FALSE
    /\ output_path = NoPath
    /\ status = 0
    /\ track_data = NoTrackData
    /\ chosen = NoneChosen
    /\ ret = NoReturn
    /\ err = "none"
    /\ gpc = "idle"
    /\ mime_type = <<>>
    /\ container = <<>>
    /\ mpc = "start"
    /\ m_track_data = NoTrackRecord
    /\ track_webpage = NoText
    /\ start_index = -1
    /\ album_data = NoAlbum
    /\ info = NoInfo
    /\ merr = "none"
    /\ fetches = <<>>

\* line 386: track_data = make_call(.../tracks/<item_id>)
FetchTrack ==
    /\ mpc = "start"
    /\ fetches' = Append(fetches, Fetch("track", <<>>))
    /\ \E outcome \in CallOutcomes :
        \/ /\ outcome = "ok"
           /\ \E r \in TrackRecords : m_track_data' = r
           /\ mpc' = "track"
           /\ merr' = merr
        \/ /\ outcome = "none"
           /\ m_track_data' = NoTrackRecord
           /\ mpc' = "track"
           /\ merr' = merr
        \/ /\ outcome = "raise"
           /\ m_track_data' = m_track_data
           /\ mpc' = "raised"
           /\ merr' = "TransportError"
    /\ UNCHANGED <<track_webpage, start_index, album_data, info>>
    /\ UNCHANGED <<dvars, gvars>>

\* lines 389-391: the '<permalink>/albums' text, the marker position, and
\* album_data = None
FetchWebpage ==
    /\ mpc = "track"
    /\ IF m_track_data.k = "none"
       THEN /\ mpc' = "raised" /\ merr' = "TypeError"
            /\ UNCHANGED <<track_webpage, start_index, fetches>>
       ELSE IF m_track_data.permalink_url.k = "absent"
       THEN /\ mpc' = "raised" /\ merr' = "KeyError"
            /\ UNCHANGED <<track_webpage, start_index, fetches>>
       ELSE /\ fetches' = Append(fetches, Fetch("webpage", <<>>))
            /\ \E outcome \in CallOutcomes :
                \/ /\ outcome = "ok"
                   /\ \E w \in Webpages :
                        /\ track_webpage' = Text(w)
                        /\ start_index' = Find(w, S_marker)
                   /\ mpc' = "page"
                   /\ merr' = merr
                \/ /\ outcome = "none"
                   /\ track_webpage' = NoText
                   /\ start_index' = start_index
                   /\ mpc' = "raised"
                   /\ merr' = "AttributeError"
                \/ /\ outcome = "raise"
                   /\ UNCHANGED <<track_webpage, start_index>>
                   /\ mpc' = "raised"
                   /\ merr' = "TransportError"
    /\ UNCHANGED <<m_track_data, album_data, info>>
    /\ UNCHANGED <<dvars, gvars>>

\* lines 392-399: the album record, fetched when an href follows the marker
ResolveAlbum ==
    /\ mpc = "page"
    /\ \E album_href \in {AlbumHref(track_webpage.s, start_index)} :
           IF album_href.found
           THEN /\ fetches' = Append(fetches, Fetch("album", album_href.group))
                /\ \E outcome \in CallOutcomes :
                    \/ /\ outcome = "ok"
                       /\ \E a \in AlbumRecords : album_data' = a
                       /\ mpc' = "album"
                       /\ merr' = merr
                    \/ /\ outcome = "none"
                       /\ album_data' = NoAlbum
                       /\ mpc' = "album"
                       /\ merr' = merr
                    \/ /\ outcome = "raise"
                       /\ album_data' = album_data
                       /\ mpc' = "raised"
                       /\ merr' = "TransportError"
           ELSE /\ mpc' = "album"
                /\ UNCHANGED <<album_data, merr, fetches>>
    /\ UNCHANGED <<m_track_data, track_webpage, start_index, info>>
    /\ UNCHANGED <<dvars, gvars>>

\* lines 401-475
BuildInfo ==
    /\ mpc = "album"
    /\ \E r \in {BuildInfoOf(m_track_data, track_webpage.s, start_index, album_data)} :
           IF r.err # "none"
           THEN mpc' = "raised" /\ merr' = r.err /\ info' = info
           ELSE mpc' = "done" /\ merr' = merr /\ info' = r.info
    /\ UNCHANGED <<m_track_data, track_webpage, start_index, album_data, fetches>>
    /\ UNCHANGED <<dvars, gvars>>

MetaNext ==
    \/ FetchTrack
    \/ FetchWebpage
    \/ ResolveAlbum
    \/ BuildInfo

MetaSpec == MetaInit /\ [][MetaNext]_vars

(***************************************************************************)
(* Properties of the selection (soundcloud_download_track).                *)
(***************************************************************************)
trs == Transcodings(track_data)

\* the selection step (lines 566-595) has run
SelectionRan ==
    \/ pc \in {"chosen", "logged", "returned"}
    \/ pc = "raised" /\ err \in {"NoSuitable", "KeyError"}

Usable(t) == ~Contains(ProtocolOf(t), S_encrypted)
HQIdx == {i \in 1..Len(trs) : Usable(trs[i]) /\ trs[i].quality = Str(S_hq)}
FamilyIdx(prefix) == {i \in 1..Len(trs) : Usable(trs[i]) /\ StartsWith(PresetOf(trs[i]), prefix)}

\* C1: with hq=True and at least one non-encrypted entry of quality 'hq' in
\* the list, the selection step chooses the first such entry in list order,
\* whatever its preset and whatever the other entries are.
C1_HQFirstChosen ==
    (SelectionRan /\ hq /\ HQIdx # {}) => chosen = Some(trs[SetMin(HQIdx)])

\* C1 witness: an encrypted HQ entry precedes the usable HQ entry that is chosen
C1_Witness ==
    /\ pc = "chosen" /\ hq /\ Len(trs) = 2
    /\ ~Usable(trs[1]) /\ trs[1].quality = Str(S_hq)
    /\ HQIdx = {2} /\ chosen = Some(trs[2])

\* no entry is both non-encrypted and matched by a step of the cascade
NoCandidate ==
    \A i \in 1..Len(trs) :
        \/ ~Usable(trs[i])
        \/ /\ ~(hq /\ trs[i].quality = Str(S_hq))
           /\ ~StartsWith(PresetOf(trs[i]), S_aac_)
           /\ ~StartsWith(PresetOf(trs[i]), S_mp3_)
           /\ ~StartsWith(PresetOf(trs[i]), S_opus_)

\* C2: when the list has no usable entry (empty, or every protocol contains
\* 'encrypted'), or no usable entry matches the HQ/aac_/mp3_/opus_ cascade,
\* the call ends in an error with no transcoding chosen and nothing returned,
\* for hq=True and hq=False alike.
C2_NoUsableFails ==
    (status = 200 /\ NoCandidate) =>
        /\ chosen = NoneChosen
        /\ ret = NoReturn
        /\ pc \in {"fetched", "checked", "raised"}
        /\ (pc = "raised" => err \in {"NoTranscodings", "NoSuitable"})
        /\ (pc = "checked" => trs # <<>>)

\* C2 witness: every entry is encrypted, one of them HQ, and the call raised
C2_Witness ==
    /\ pc = "raised" /\ err = "NoSuitable" /\ hq
    /\ Len(trs) = 2 /\ \A i \in 1..2 : ~Usable(trs[i])
    /\ trs[1].quality = Str(S_hq) /\ StartsWith(PresetOf(trs[2]), S_aac_)

\* C3: with hq=False, or hq=True and no usable HQ entry, the chosen entry is
\* the first usable 'aac_' entry if there is one, else the first usable
\* 'mp3_' entry if there is one, else the first usable 'opus_' entry: the
\* codec family decides before the list position.
C3_CodecCascade ==
    (SelectionRan /\ (~hq \/ HQIdx = {})) =>
        IF FamilyIdx(S_aac_) # {} THEN chosen = Some(trs[SetMin(FamilyIdx(S_aac_))])
        ELSE IF FamilyIdx(S_mp3_) # {} THEN chosen = Some(trs[SetMin(FamilyIdx(S_mp3_))])
        ELSE IF FamilyIdx(S_opus_) # {} THEN chosen = Some(trs[SetMin(FamilyIdx(S_opus_))])
        ELSE TRUE

\* C3 witness: a usable mp3_ entry precedes the usable aac_ entry that is chosen
C3_Witness ==
    /\ pc = "chosen" /\ ~hq /\ Len(trs) = 2
    /\ Usable(trs[1]) /\ StartsWith(PresetOf(trs[1]), S_mp3_)
    /\ Usable(trs[2]) /\ StartsWith(PresetOf(trs[2]), S_aac_)
    /\ chosen = Some(trs[2])

\* C4: a chosen transcoding is an element of the fetched list and its
\* protocol does not contain 'encrypted'.
C4_ChosenIsUsableElement ==
    chosen.k = "some" =>
        /\ \E i \in 1..Len(trs) : trs[i] = chosen.t
        /\ ~Contains(ProtocolOf(chosen.t), S_encrypted)

\* C4 witness: the only HQ entry is encrypted and comes first; with hq=True
\* the other entry is chosen
C4_Witness ==
    /\ pc = "chosen" /\ hq /\ Len(trs) = 2
    /\ trs[1].quality = Str(S_hq) /\ Contains(ProtocolOf(trs[1]), S_encrypted)
    /\ StartsWith(PresetOf(trs[1]), S_aac_)
    /\ trs[2].quality # Str(S_hq)
    /\ chosen = Some(trs[2])

\* the container inferred for the chosen transcoding
ChosenContainer ==
    guess_container_from_mime(
        IF chosen.t.format.k = "absent" THEN S_empty
        ELSE GetStr(chosen.t.format.mime_type, S_empty).s)

\* C5: once a transcoding is chosen and the call has run to its end, it has
\* returned (path, chosen): the supplied output_path with its extension
\* replaced by the container, or 'soundcloud_<item_id>.<container>' when no
\* output_path was supplied.
C5_ReturnsPathAndChosen ==
    pc = "returned" =>
        /\ ret.k = "tuple"
        /\ ret.t = chosen.t
        /\ ret.path = IF output_path.k = "null" \/ output_path.s = <<>>
                      THEN S_soundcloud_ \o S_item_id \o S_dot \o ChosenContainer
                      ELSE splitext(output_path.s)[1] \o S_dot \o ChosenContainer

(***************************************************************************)
(* Properties of guess_container_from_mime.                                *)
(***************************************************************************)
\* sub occurs in s when letter case is ignored
ContainsIgnoringCase(s, sub) ==
    \E i \in 0..(Len(s) - Len(sub)) :
        \A j \in 1..Len(sub) : LowerChar(s[i + j]) = LowerChar(sub[j])

\* sub occurs in s verbatim
ContainsVerbatim(s, sub) ==
    \E i \in 0..(Len(s) - Len(sub)) : \A j \in 1..Len(sub) : s[i + j] = sub[j]

\* C6 as stated: the first matching rule among contains 'mpeg' -> 'mp3',
\* contains 'mp4' -> 'm4a', contains 'ogg' -> 'ogg', else 'mp3', with
\* "contains" read on the media type as given.
C6_Original ==
    gpc = "done" =>
        container = IF ContainsVerbatim(mime_type, S_mpeg) THEN S_mp3
                    ELSE IF ContainsVerbatim(mime_type, S_mp4) THEN S_m4a
                    ELSE IF ContainsVerbatim(mime_type, S_ogg) THEN S_ogg
                    ELSE S_mp3

\* C6 amended: the same cascade with "contains" ignoring letter case; the
\* result is always one of 'mp3', 'm4a', 'ogg'.
C6_ContainerCascade ==
    gpc = "done" =>
        /\ container \in {S_mp3, S_m4a, S_ogg}
        /\ (container = S_m4a <=>
                /\ ~ContainsIgnoringCase(mime_type, S_mpeg)
                /\ ContainsIgnoringCase(mime_type, S_mp4))
        /\ (container = S_ogg <=>
                /\ ~ContainsIgnoringCase(mime_type, S_mpeg)
                /\ ~ContainsIgnoringCase(mime_type, S_mp4)
                /\ ContainsIgnoringCase(mime_type, S_ogg))

\* C6 witness: a media type holding both 'mpeg' and 'mp4' maps to 'mp3'
C6_Witness ==
    /\ gpc = "done"
    /\ ContainsVerbatim(mime_type, S_mp4) /\ ContainsVerbatim(mime_type, S_mpeg)
    /\ Find(mime_type, S_mp4) < Find(mime_type, S_mpeg)
    /\ container = S_mp3

\* the /tracks/<item_id> request was answered with a status other than 2xx
NonSuccessStatus == pc # "start" /\ ~(status >= 200 /\ status < 300)
FetchFailedLoud ==
    /\ pc = "raised" /\ err = "HTTPError"
    /\ track_data = NoTrackData
    /\ chosen = NoneChosen
    /\ ret = NoReturn

\* C11 as stated: when the track request returns 401, 403 or any other
\* non-success status, an error is raised out of soundcloud_download_track,
\* no transcoding is chosen and nothing is returned.
C11_Original == NonSuccessStatus => FetchFailedLoud

\* C11 amended: when the track request returns 401, 403 or any other status
\* from 400 to 599, HTTPError is raised out of soundcloud_download_track,
\* no transcoding is chosen and nothing is returned; the error is raised
\* for no other status.
C11_MandatoryFetchFailsLoud ==
    /\ (pc # "start" /\ status >= 400 /\ status < 600) => FetchFailedLoud
    /\ err = "HTTPError" => (status >= 400 /\ status < 600)

\* C11 witness: a 403 answer ended the call with HTTPError before any
\* transcoding was looked at
C11_Witness ==
    /\ status = 403
    /\ pc = "raised" /\ err = "HTTPError"
    /\ chosen = NoneChosen /\ ret = NoReturn

(***************************************************************************)
(* Properties of soundcloud_get_track_metadata.                            *)
(***************************************************************************)
\* the call ended in an exception because an optional fetch (the webpage or
\* the album resolve) failed
OptionalFetchFailed ==
    /\ mpc = "raised"
    /\ Len(fetches) >= 2
    /\ \/ merr = "TransportError"
       \/ merr = "AttributeError" /\ track_webpage.k = "none"

InfoFields == {"item_url", "release_year", "title", "track_number", "total_tracks", "length",
               "artists", "album_name", "album_type", "album_artists", "copyright", "item_id"}

\* C7: for a fetched track record, whichever of its fields are absent, null
\* or empty, the call does not fail, and the result has every field other
\* than label.
C7_NeverFailsOnSparseRecord ==
    /\ (mpc = "raised" /\ m_track_data.k = "obj") => OptionalFetchFailed
    /\ mpc = "done" => \A f \in InfoFields : info[f].k \in {"str", "int"}

\* C8: a failure of an optional fetch is never propagated: the call does not
\* end in an exception because of it, and without an album record the result
\* has track_number '1', total_tracks '1' and album_type 'single'.
C8_OptionalFailuresAbsorbed ==
    /\ ~OptionalFetchFailed
    /\ (mpc = "done" /\ album_data.k = "none") =>
            /\ info.track_number = Str(S_one)
            /\ info.total_tracks = Str(S_one)
            /\ info.album_type = Str(S_single)

\* the album record has 'track_count' and a 'tracks' list
HasCountAndTracks == album_data.k = "obj" /\ album_data.track_count.k # "absent" /\ album_data.tracks.k = "list"
AlbumItems == album_data.tracks.items
EntriesHaveIds == \A i \in 1..Len(AlbumItems) : AlbumItems[i].id.k # "absent"
MatchingPositions == {i \in 1..Len(AlbumItems) : AlbumItems[i].id = m_track_data.id}

AlbumValues ==
    /\ info.album_type = Str(S_album)
    /\ info.total_tracks = album_data.track_count
    /\ info.track_number = Num(IF MatchingPositions # {} THEN SetMin(MatchingPositions) ELSE Len(AlbumItems))

DefaultValues ==
    /\ info.album_type = Str(S_single)
    /\ info.total_tracks = Str(S_one)
    /\ info.track_number = Str(S_one)

\* C9 as stated: with an album record that has track_count and a tracks
\* list, album_type is 'album', total_tracks the record's track_count and
\* track_number the 1-based position of the first entry with the track's id,
\* or the length of the list when no entry matches; without an album record
\* the three fields are '1', '1', 'single'.
C9_Original ==
    mpc = "done" =>
        /\ (HasCountAndTracks /\ EntriesHaveIds) => AlbumValues
        /\ album_data.k = "none" => DefaultValues

\* C9 amended: the album values are set when, besides, the track record has
\* an id or the tracks list is empty; with a non-empty list and a track
\* record without id the three fields are the defaults, as they are without
\* an album record; the three fields are never a mixture of both.
C9_TrackNumbering ==
    mpc = "done" =>
        /\ (HasCountAndTracks /\ EntriesHaveIds /\ (m_track_data.id.k # "absent" \/ AlbumItems = <<>>))
                => AlbumValues
        /\ (HasCountAndTracks /\ m_track_data.id.k = "absent" /\ AlbumItems # <<>>) => DefaultValues
        /\ album_data.k = "none" => DefaultValues
        /\ \/ DefaultValues
           \/ /\ info.album_type = Str(S_album)
              /\ info.total_tracks = album_data.track_count
              /\ info.track_number.k = "int"

\* C9 witness: the track is the second entry of the album's list
C9_Witness ==
    /\ mpc = "done"
    /\ HasCountAndTracks /\ Len(AlbumItems) = 2
    /\ AlbumItems[1].id = Num(1) /\ AlbumItems[2].id = m_track_data.id
    /\ info.track_number = Num(2) /\ info.total_tracks = Num(3) /\ info.album_type = Str(S_album)

PublisherAlbumName == m_track_data.publisher_metadata.album_name
HasPublisherAlbumName == m_track_data.publisher_metadata.k = "obj" /\ PublisherAlbumName.k # "absent"
MarkerFound == Contains(track_webpage.s, S_marker)
AnchorAfterMarker == SearchAnchor(track_webpage.s, Find(track_webpage.s, S_marker))

\* C10: album_name is publisher_metadata.album_name when that is present,
\* marker or not; otherwise, when the marker is found and an anchor follows
\* it, the anchor's text, or the track's title when that text starts with
\* 'Users who like'; otherwise the empty string.
C10_AlbumNamePrecedence ==
    mpc = "done" =>
        IF HasPublisherAlbumName THEN info.album_name = PublisherAlbumName
        ELSE IF ~MarkerFound THEN info.album_name = Str(S_empty)
        ELSE \E anchor \in {AnchorAfterMarker} :
                info.album_name =
                    IF ~anchor.found THEN Str(S_empty)
                    ELSE IF StartsWith(anchor.group, S_users_who_like) THEN m_track_data.title
                    ELSE Str(anchor.group)

\* C10 witness: the anchor after the marker reads 'Users who like ...' and
\* the album name is the track's title
C10_Witness ==
    /\ mpc = "done"
    /\ ~HasPublisherAlbumName
    /\ MarkerFound /\ AnchorAfterMarker.found
    /\ StartsWith(AnchorAfterMarker.group, S_users_who_like)
    /\ info.album_name = Str(S_title)

\* the order in which the three requests can be issued
FetchKinds == <<"track", "webpage", "album">>
\* the 0-based positions, from the position m on, where 'href="' starts and
\* a closing quote follows
HrefStartsFrom(m) ==
    {p \in m..(Len(track_webpage.s) - Len(S_href_open)) :
        /\ OccursAt(track_webpage.s, S_href_open, p)
        /\ \E q \in (p + Len(S_href_open) + 1)..Len(track_webpage.s) : track_webpage.s[q] = S_quote[1]}
HrefStartsAfterMarker == HrefStartsFrom(Find(track_webpage.s, S_marker))
\* the text between the quotes of the href that starts at p
HrefValueAt(p) ==
    Only({SubSeq(track_webpage.s, p + Len(S_href_open) + 1, q - 1) :
            q \in {SetMin({i \in (p + Len(S_href_open) + 1)..Len(track_webpage.s) :
                              track_webpage.s[i] = S_quote[1]})}})
\* the webpage request returned text in which an href follows the first
\* marker, and the album request carries the first such href
AlbumFetchFollowsMarker ==
    /\ track_webpage.k = "str"
    /\ \E m \in {Find(track_webpage.s, S_marker)} :
            /\ m # -1
            /\ \E starts \in {HrefStartsFrom(m)} :
                    /\ starts # {}
                    /\ fetches[3].arg = HrefValueAt(SetMin(starts))

\* the requests issued so far are in the order track, webpage, album, at most
\* one of each, and the track request is the first thing the call does
FetchesInOrder ==
    /\ Len(fetches) <= 3
    /\ \A i \in 1..Len(fetches) : fetches[i].what = FetchKinds[i]
    /\ mpc # "start" => Len(fetches) >= 1
\* the step issues the album request
IssuesAlbumFetch == Len(fetches) = 2 /\ Len(fetches') = 3

\* C12: the requests are issued in the order track, webpage, album, at most
\* one of each and the track request always first; the album request is
\* issued only when the webpage request returned text in which an href
\* follows the 'Appears in albums' marker, and with the first such href.
C12_FetchOrder ==
    /\ []FetchesInOrder
    /\ [][IssuesAlbumFetch => AlbumFetchFollowsMarker']_vars

\* C12 witness: two links follow the marker, a third request was issued
\* with the href of the first of them, and the call returned
C12_Witness ==
    /\ mpc = "done"
    /\ Len(fetches) = 3
    /\ Cardinality(HrefStartsAfterMarker) = 2
    /\ fetches[3].arg = SubSeq(Chunk_users_anchor, 10, 17)
    /\ fetches[3].arg # SubSeq(Chunk_album_anchor, 10, 19)

====
